---- MODULE Spec2Model ----
(***************************************************************************)
(* The interaction state machine of the schedule widget                    *)
(* (src/widget/schedule_ui/interaction.rs) and the file-backed event store *)
(* (src/backend/local_dir.rs).                                             *)
(*                                                                         *)
(* Time is a line of slots: a timestamp is an integer, a calendar day is   *)
(* DayLen consecutive slots, durations are differences of timestamps.      *)
(* An Option<T> is a sequence of length at most one: None is << >>,        *)
(* Some(x) is <<x>>.                                                       *)
(***************************************************************************)
EXTENDS Integers, Sequences, FiniteSets, TLC

\* ------------------------------------------------------------------ bounds
DayLen == 3
\* the interactions one session starts
MaxInteractions == 2

\* self.min_event_duration, in slots
min_event_duration == 1

\* the time axis shows two days
Times == 0 .. (2 * DayLen - 1)
\* titles: 0 is what the event had or an empty title, 1 is a typed text
Titles == {0, 1}
None == << >>
Some(x) == <<x>>
IsSome(o) == Len(o) = 1
Unwrap(o) == o[1]

Min2(a, b) == IF a <= b THEN a ELSE b
Max2(a, b) == IF a >= b THEN a ELSE b

\* --------------------------------------------------------------- the Event
\* crate::event::Event: id, start, end, title, and the dirty marker `changed`.
MkEvent(id, start, end, title, changed) ==
    [id |-> id, start |-> start, end |-> end, title |-> title, changed |-> changed]

\* Event::mark_changed
mark_changed(e) == [e EXCEPT !.changed = TRUE]

\* ScheduleUi::new_event with a fresh identity: an untitled event whose
\* dates assign_new_event_dates overwrites before it is stored.
new_event(id) == MkEvent(id, 0, 0, 0, FALSE)

\* ScheduleUi::clone_to_new_event: a duplicate with a fresh identity,
\* the same title and the same start and end.
clone_to_new_event(e, id) == [e EXCEPT !.id = id]

\* util::reorder_times: swaps the two when the first is later; tells whether it did.
reorder_times(a, b) ==
    [start |-> Min2(a, b), end |-> Max2(a, b), reordered |-> a > b]

DayOf(t) == t \div DayLen

\* util::on_the_same_day
on_the_same_day(a, b) == DayOf(a) = DayOf(b)

\* ScheduleUi::day_progress(t) < 0.5, in integers
day_progress_lt_half(t) == 2 * (t % DayLen) < DayLen

\* super::move_event_start: the start follows the pointer, pinned at
\* end - min_event_duration.
move_event_start(e, t, mind) == [e EXCEPT !.start = Min2(t, e.end - mind)]

\* super::move_event_end: the end follows the pointer, pinned at
\* start + min_event_duration.
move_event_end(e, t, mind) == [e EXCEPT !.end = Max2(t, e.start + mind)]

\* super::move_event: the start follows the pointer, the duration is kept.
move_event(e, t) == [e EXCEPT !.start = t, !.end = t + (e.end - e.start)]

\* ------------------------------------------------------------------- state
VARIABLES
    events,      \* ScheduleUi::events, the authoritative list
    ie,          \* Option<InteractingEvent>: the transient interaction record
    committed,   \* Option<Event>: the slot InteractingEvent::commit fills
    deleted,     \* Option<EventId>: the DeletedEvent marker
    dragOffset,  \* Option<DraggingEventYOffset>, in slots
    newId,       \* Option<EventId> stored under the grid response's id
    initTime,    \* Option<DateTime> stored under the grid response's id
    nextId,      \* the next fresh identity new_event / clone_to_new_event hands out
    started,     \* the interactions the session has started so far
    ptr,         \* the pointer between frames: <<"up", 0>>, <<"grid", 0>>, <<"block", id>>
    pc,          \* the position in the frame: frame, apply, crashed
    fault,       \* none, or the failed check: debug_assert, unreachable
    hist,        \* history: how the latest interaction began and stands, and the
                 \* list as of the frame in which it began
    lastPass,    \* history: what the latest reconciliation pass found, when it
                 \* found a committed event or a marker
    dir,         \* LocalDir::dir: what the directory holds under each name
    readable,    \* the directory can be read and written
    ret          \* the latest Backend call: its name, arguments and result

uiVars == <<events, ie, committed, deleted, dragOffset, newId, initTime, nextId,
            started, ptr, pc, fault, hist, lastPass>>

storeVars == <<dir, readable, ret>>

vars == <<uiVars, storeVars>>

\* What the handlers of a frame read and write in egui's memory, as one value.
Mem ==
    [ie |-> ie, committed |-> committed, deleted |-> deleted,
     dragOffset |-> dragOffset, newId |-> newId, initTime |-> initTime,
     nextId |-> nextId, fault |-> fault]



\* --------------------------------------------------- the frame's input
\* The Renderer's per-frame snapshot of pointer and keyboard: one gesture per
\* frame.  kind: idle, type, escape, blur, elsewhere, press_grid, press_block,
\* hold, release, delete.  owner/blk: the widget that owns the pointer button
\* (the empty grid, or the block of event blk).  time: the timestamp the
\* Pointer/Geometry Adapter maps the pointer to, None outside the time axis.
Inp(kind, owner, blk, region, ctrl, time, click, title) ==
    [kind |-> kind, owner |-> owner, blk |-> blk, region |-> region,
     ctrl |-> ctrl, time |-> time, click |-> click, title |-> title]

IdleInp == Inp("idle", "none", 0, "out", FALSE, None, FALSE, 0)

OptTimes == {None} \cup {Some(t) : t \in Times}

Ids == {events[i].id : i \in DOMAIN events}

EventWithId(id) == events[CHOOSE i \in DOMAIN events : events[i].id = id]

IsEditing == IsSome(ie) /\ ie[1].state = "Editing"

\* The blocks drawn as static blocks: every event but the one under interaction.
StaticIds == Ids \ {ie[i].event.id : i \in DOMAIN ie}

\* Keyboard and focus gestures reach the program only through the in-place editor.
KeyGestures ==
    IF IsEditing /\ ptr[1] = "up"
    THEN {Inp(k, "none", 0, "out", FALSE, None, FALSE, 0) : k \in {"escape", "blur", "elsewhere"}}
         \cup {Inp("type", "none", 0, "out", FALSE, None, FALSE, t) : t \in Titles}
    ELSE {}

\* A primary press starts a drag on the widget under the pointer: the empty
\* grid, or one of the three regions of a static block.  A press in a block's
\* body is at a time inside the block.  No press arrives while a drag
\* interaction waits for the frame that commits it, and a session presses
\* at most MaxInteractions times.
PressGestures ==
    IF ptr[1] = "up" /\ (ie = None \/ IsEditing) /\ started < MaxInteractions
    THEN {Inp("press_grid", "grid", 0, "out", FALSE, t, FALSE, 0) : t \in OptTimes}
         \cup {Inp("press_block", "block", b, r, FALSE, None, FALSE, 0) :
                 b \in StaticIds, r \in {"upper", "lower"}}
         \cup UNION {{Inp("press_block", "block", b, "body", c, Some(t), FALSE, 0) :
                        t \in (EventWithId(b).start .. EventWithId(b).end) \cap Times,
                        c \in BOOLEAN} :
                     b \in StaticIds}
    ELSE {}

\* While the button is down the pointer moves (hold) or the button is released,
\* as a click when the pointer did not travel.
DownGestures ==
    IF ptr[1] # "up"
    THEN {Inp("hold", ptr[1], ptr[2], "out", FALSE, t, FALSE, 0) : t \in OptTimes}
         \cup {Inp("release", ptr[1], ptr[2], "out", FALSE, t, c, 0) :
                 t \in OptTimes, c \in BOOLEAN}
    ELSE {}

\* The context menu's Delete button of a static block.
DeleteGestures ==
    IF ptr[1] = "up" /\ ie = None
    THEN {Inp("delete", "none", b, "out", FALSE, None, FALSE, 0) : b \in Ids}
    ELSE {}

Gestures ==
    (IF ptr[1] = "up" THEN {IdleInp} ELSE {})
    \cup KeyGestures \cup PressGestures \cup DownGestures \cup DeleteGestures

\* egui: Memory::is_anything_being_dragged, true from the press frame through
\* the release frame.
is_anything_being_dragged(g) ==
    g.kind \in {"press_grid", "press_block", "hold", "release"}

\* egui: the Response of the button of block b this frame.
BlockResponse(g, b) ==
    LET pos == g.owner = "block" /\ g.blk = b IN
    [pos |-> pos,
     clicked |-> pos /\ g.kind = "release" /\ g.click,
     dragStarted |-> pos /\ g.kind = "press_block",
     region |-> g.region, ctrl |-> g.ctrl, time |-> g.time]

\* egui: the Response of the button of the event under interaction, which is
\* the block the pointer holds.
InteractingResponse(g) ==
    LET pos == g.owner = "block" IN
    [pos |-> pos,
     clicked |-> pos /\ g.kind = "release" /\ g.click,
     dragStarted |-> FALSE,
     region |-> g.region, ctrl |-> g.ctrl, time |-> g.time]

\* egui: the Response of the empty grid area handed to handle_new_event.
GridResponse(g) ==
    [drag_started |-> g.kind = "press_grid",
     dragged |-> g.owner = "grid" /\ g.kind \in {"press_grid", "hold"},
     drag_released |-> g.owner = "grid" /\ g.kind = "release",
     clicked |-> g.owner = "grid" /\ g.kind = "release" /\ g.click]

\* ScheduleUi::pointer_to_datetime_auto at the pointer's position.
pointer_to_datetime_auto(g) == g.time

\* ScheduleUi::pointer_to_datetime_auto at the pointer's position moved by
\* the captured offset: None when that leaves the time axis.
pointer_to_datetime_offset(g, off) ==
    IF g.time = None THEN None
    ELSE LET t == Unwrap(g.time) + (IF IsSome(off) THEN Unwrap(off) ELSE 0)
         IN  IF t \in Times THEN Some(t) ELSE None

\* ------------------------------------------------------ InteractingEvent
MkIE(event, state) == [event |-> event, state |-> state]

\* InteractingEvent::get_id
get_id(rec, id) == IF IsSome(rec) /\ rec[1].event.id = id THEN rec ELSE None

\* InteractingEvent::discard: the record is removed; the debug assertion at
\* its head fails when there is none.
discard(m) ==
    [m EXCEPT !.ie = None,
              !.fault = IF IsSome(m.ie) THEN @ ELSE "debug_assert"]

\* InteractingEvent::commit of the record's event ev: the event goes to the
\* committed slot, then discard.
commit(m, ev) == discard([m EXCEPT !.committed = Some(ev)])

\* InteractingEvent::set / save
save(m, ev, state) == [m EXCEPT !.ie = Some(MkIE(ev, state))]

\* ------------------------------------------------------- the classifier
\* ScheduleUi::interact_event_region on the response of event ev's button:
\* the state the gesture starts, and the drag offset it leaves in memory.
interact_event_region(resp, ev, off) ==
    IF ~resp.pos THEN [state |-> None, offset |-> off]
    ELSE IF resp.clicked THEN [state |-> Some("Editing"), offset |-> off]
    ELSE IF resp.region = "upper"
    THEN [state |-> IF resp.dragStarted THEN Some("DraggingEventStart") ELSE None,
          offset |-> off]
    ELSE IF resp.region = "lower"
    THEN [state |-> IF resp.dragStarted THEN Some("DraggingEventEnd") ELSE None,
          offset |-> off]
    ELSE IF resp.region = "body"
    THEN IF resp.dragStarted /\ resp.ctrl
         THEN [state |-> Some("EventCloning"),
               offset |-> Some(ev.start - Unwrap(resp.time))]
         ELSE IF resp.dragStarted
         THEN [state |-> Some("Dragging"),
               offset |-> Some(ev.start - Unwrap(resp.time))]
         ELSE [state |-> None, offset |-> off]
    ELSE [state |-> None, offset |-> off]

\* An override that installs whatever the classifier found.
state_override_any(old_state, new_state) == new_state

\* state_override
state_override(old_state, new_state) ==
    IF new_state = "Editing" THEN new_state ELSE old_state

\* ScheduleUi::place_event_button: the context menu's Delete records the marker.
place_event_button(m, g, id) ==
    IF g.kind = "delete" /\ g.blk = id THEN [m EXCEPT !.deleted = Some(id)] ELSE m

\* ----------------------------------------------- per-frame drag updates
\* A DraggingEventStart arm that takes the mapped time as the start unclamped.
DragStartArm_unclamped(g, ev) ==
    IF ~is_anything_being_dragged(g)
    THEN [commit |-> Some(TRUE), event |-> ev]
    ELSE [commit |-> None,
          event |-> IF IsSome(pointer_to_datetime_auto(g))
                    THEN [ev EXCEPT !.start = Unwrap(pointer_to_datetime_auto(g))]
                    ELSE ev]

\* The DraggingEventStart arm of interact_event, through
\* ScheduleUi::handle_event_resizing: commit when nothing is dragged any
\* more, else the mapped time becomes the start.
DragStartArm(g, ev) ==
    IF ~is_anything_being_dragged(g)
    THEN [commit |-> Some(TRUE), event |-> ev]
    ELSE [commit |-> None,
          event |-> IF IsSome(pointer_to_datetime_auto(g))
                    THEN move_event_start(ev, Unwrap(pointer_to_datetime_auto(g)),
                                          min_event_duration)
                    ELSE ev]

\* A DraggingEventEnd arm that commits while the drag goes on.
DragEndArm_commits_early(g, ev) ==
    IF g.kind # "press_block" /\ g.kind # "press_grid"
    THEN [commit |-> Some(TRUE), event |-> ev]
    ELSE [commit |-> None,
          event |-> IF IsSome(pointer_to_datetime_auto(g))
                    THEN move_event_end(ev, Unwrap(pointer_to_datetime_auto(g)),
                                        min_event_duration)
                    ELSE ev]

\* The DraggingEventEnd arm of interact_event, through handle_event_resizing.
DragEndArm(g, ev) ==
    IF ~is_anything_being_dragged(g)
    THEN [commit |-> Some(TRUE), event |-> ev]
    ELSE [commit |-> None,
          event |-> IF IsSome(pointer_to_datetime_auto(g))
                    THEN move_event_end(ev, Unwrap(pointer_to_datetime_auto(g)),
                                        min_event_duration)
                    ELSE ev]

\* A Dragging arm that moves the start and leaves the end where it was.
DraggingArm_start_only(g, ev, off) ==
    IF ~is_anything_being_dragged(g)
    THEN [commit |-> Some(TRUE), event |-> ev]
    ELSE [commit |-> None,
          event |-> IF IsSome(pointer_to_datetime_offset(g, off))
                    THEN [ev EXCEPT !.start = Unwrap(pointer_to_datetime_offset(g, off))]
                    ELSE ev]

\* The Dragging arm of interact_event, through
\* ScheduleUi::handle_event_dragging: the captured offset is added to the
\* pointer before it is mapped.
DraggingArm(g, ev, off) ==
    IF ~is_anything_being_dragged(g)
    THEN [commit |-> Some(TRUE), event |-> ev]
    ELSE [commit |-> None,
          event |-> IF IsSome(pointer_to_datetime_offset(g, off))
                    THEN move_event(ev, Unwrap(pointer_to_datetime_offset(g, off)))
                    ELSE ev]

\* ScheduleUi::interact_event: the arm of the state; any other state is
\* unreachable!().
interact_event(g, state, ev, off) ==
    CASE state = "DraggingEventStart" -> DragStartArm(g, ev) @@ [panic |-> FALSE]
      [] state = "DraggingEventEnd" -> DragEndArm(g, ev) @@ [panic |-> FALSE]
      [] state = "Dragging" -> DraggingArm(g, ev, off) @@ [panic |-> FALSE]
      [] OTHER -> [commit |-> None, event |-> ev, panic |-> TRUE]

\* An editor that takes the loss of focus for a cancel.
place_event_editor_blur_cancels(g, ev) ==
    LET edited == IF g.kind = "type" THEN [ev EXCEPT !.title = g.title] ELSE ev
    IN  [event |-> edited,
         result |-> IF g.kind \in {"escape", "blur"} THEN Some(FALSE)
                    ELSE IF g.kind = "elsewhere" \/ is_anything_being_dragged(g)
                    THEN Some(TRUE)
                    ELSE None]

\* ScheduleUi::place_event_editor: the editor is bound to the title; Escape
\* discards, loss of focus, a click elsewhere or a drag elsewhere commits.
place_event_editor(g, ev) ==
    LET edited == IF g.kind = "type" THEN [ev EXCEPT !.title = g.title] ELSE ev
        lost_focus == g.kind = "blur"
        clicked_elsewhere == g.kind = "elsewhere"
        anything_else_dragging == is_anything_being_dragged(g)
    IN  [event |-> edited,
         result |-> IF g.kind = "escape" THEN Some(FALSE)
                    ELSE IF lost_focus \/ clicked_elsewhere \/ anything_else_dragging
                    THEN Some(TRUE)
                    ELSE None]

\* A date assignment that does not reorder the anchor and the pointer.
assign_new_event_dates_unordered(g, init_time, ev) ==
    IF pointer_to_datetime_auto(g) = None THEN None
    ELSE LET new_time == Unwrap(pointer_to_datetime_auto(g))
         IN  Some([event |-> [ev EXCEPT !.start = init_time, !.end = new_time],
                   state |-> IF init_time > new_time THEN "DraggingEventStart"
                             ELSE "DraggingEventEnd"])

\* A date assignment that takes the halves of the day the other way round.
assign_new_event_dates_swapped(g, init_time, ev) ==
    IF pointer_to_datetime_auto(g) = None THEN None
    ELSE LET new_time == Unwrap(pointer_to_datetime_auto(g))
             r == reorder_times(init_time, new_time)
             crossed == ~on_the_same_day(r.start, r.end)
             start == IF crossed
                      THEN IF day_progress_lt_half(init_time)
                           THEN init_time - min_event_duration
                           ELSE init_time
                      ELSE r.start
             end == IF crossed
                    THEN IF day_progress_lt_half(init_time) THEN init_time
                         ELSE init_time + min_event_duration
                    ELSE r.end
         IN  Some([event |-> [ev EXCEPT !.start = start, !.end = end],
                   state |-> IF r.reordered THEN "DraggingEventStart"
                             ELSE "DraggingEventEnd"])

\* ScheduleUi::assign_new_event_dates
assign_new_event_dates(g, init_time, ev) ==
    IF pointer_to_datetime_auto(g) = None THEN None
    ELSE LET new_time == Unwrap(pointer_to_datetime_auto(g))
             r == reorder_times(init_time, new_time)
             crossed == ~on_the_same_day(r.start, r.end)
             start == IF crossed
                      THEN IF day_progress_lt_half(init_time) THEN init_time
                           ELSE init_time - min_event_duration
                      ELSE r.start
             end == IF crossed
                    THEN IF day_progress_lt_half(init_time)
                         THEN init_time + min_event_duration
                         ELSE init_time
                    ELSE r.end
         IN  Some([event |-> [ev EXCEPT !.start = start, !.end = end],
                   state |-> IF r.reordered THEN "DraggingEventStart"
                             ELSE "DraggingEventEnd"])

\* ------------------------------------------------------------ handlers
\* A static block that stores the cloning gesture under its own state.
put_non_interacting_event_block_stores_cloning(m, g, ev) ==
    LET m1 == place_event_button(m, g, ev.id)
        r == interact_event_region(BlockResponse(g, ev.id), ev, m1.dragOffset)
        m2 == [m1 EXCEPT !.dragOffset = r.offset]
    IN  IF r.state = None THEN m2
        ELSE IF r.state = Some("EventCloning")
        THEN save([m2 EXCEPT !.nextId = @ + 1],
                  clone_to_new_event(ev, m2.nextId), "EventCloning")
        ELSE save(m2, ev, Unwrap(r.state))

\* A static block whose cloning gesture drags the event itself.
put_non_interacting_event_block_no_clone(m, g, ev) ==
    LET m1 == place_event_button(m, g, ev.id)
        r == interact_event_region(BlockResponse(g, ev.id), ev, m1.dragOffset)
        m2 == [m1 EXCEPT !.dragOffset = r.offset]
    IN  IF r.state = None THEN m2
        ELSE IF r.state = Some("EventCloning") THEN save(m2, ev, "Dragging")
        ELSE save(m2, ev, Unwrap(r.state))

\* ScheduleUi::put_non_interacting_event_block on the static block of ev.
put_non_interacting_event_block(m, g, ev) ==
    LET m1 == place_event_button(m, g, ev.id)
        r == interact_event_region(BlockResponse(g, ev.id), ev, m1.dragOffset)
        m2 == [m1 EXCEPT !.dragOffset = r.offset]
    IN  IF r.state = None THEN m2
        ELSE IF r.state = Some("EventCloning")
        THEN save([m2 EXCEPT !.nextId = @ + 1],
                  clone_to_new_event(ev, m2.nextId), "Dragging")
        ELSE save(m2, ev, Unwrap(r.state))

\* An interacting block whose editor commits on the cancel key too.
put_interacting_event_block_cancel_commits(m, g) ==
    IF m.ie = None THEN m
    ELSE LET rec == Unwrap(m.ie) IN
         IF rec.state = "Editing"
         THEN LET ed == place_event_editor(g, rec.event) IN
              IF ed.result = None THEN save(m, ed.event, rec.state)
              ELSE commit(m, ed.event)
         ELSE LET m1 == place_event_button(m, g, rec.event.id)
                  r == interact_event(g, rec.state, rec.event, m1.dragOffset)
                  reg == interact_event_region(InteractingResponse(g), r.event,
                                               m1.dragOffset)
                  state == IF IsSome(reg.state)
                           THEN state_override(rec.state, Unwrap(reg.state))
                           ELSE rec.state
              IN  IF r.panic THEN [m1 EXCEPT !.fault = "unreachable"]
                  ELSE IF r.commit = None
                  THEN save([m1 EXCEPT !.dragOffset = reg.offset], r.event, state)
                  ELSE IF r.commit = Some(TRUE) THEN commit(m1, r.event)
                  ELSE discard(m1)

\* ScheduleUi::put_interacting_event_block: nothing without a record.
put_interacting_event_block(m, g) ==
    IF m.ie = None THEN m
    ELSE LET rec == Unwrap(m.ie) IN
         IF rec.state = "Editing"
         THEN LET ed == place_event_editor(g, rec.event) IN
              IF ed.result = None THEN save(m, ed.event, rec.state)
              ELSE IF ed.result = Some(TRUE) THEN commit(m, ed.event)
              ELSE discard(m)
         ELSE LET m1 == place_event_button(m, g, rec.event.id)
                  r == interact_event(g, rec.state, rec.event, m1.dragOffset)
                  reg == interact_event_region(InteractingResponse(g), r.event,
                                               m1.dragOffset)
                  state == IF IsSome(reg.state)
                           THEN state_override(rec.state, Unwrap(reg.state))
                           ELSE rec.state
              IN  IF r.panic THEN [m1 EXCEPT !.fault = "unreachable"]
                  ELSE IF r.commit = None
                  THEN save([m1 EXCEPT !.dragOffset = reg.offset], r.event, state)
                  ELSE IF r.commit = Some(TRUE) THEN commit(m1, r.event)
                  ELSE discard(m1)

\* ScheduleUi::handle_new_event on the grid's response.
handle_new_event(m, g) ==
    LET resp == GridResponse(g) IN
    IF resp.drag_started
    THEN IF pointer_to_datetime_auto(g) = None THEN m
         ELSE LET init_time == Unwrap(pointer_to_datetime_auto(g))
                  a == assign_new_event_dates(g, init_time, new_event(m.nextId))
              IN  save([m EXCEPT !.newId = Some(m.nextId),
                                 !.initTime = Some(init_time),
                                 !.nextId = @ + 1],
                       a[1].event, a[1].state)
    ELSE IF resp.clicked THEN discard(m)
    ELSE IF resp.drag_released
    THEN IF m.newId = None \/ get_id(m.ie, Unwrap(m.newId)) = None THEN m
         ELSE save(m, m.ie[1].event, "Editing")
    ELSE IF resp.dragged
    THEN IF m.newId = None \/ m.initTime = None
            \/ get_id(m.ie, Unwrap(m.newId)) = None
         THEN m
         ELSE LET a == assign_new_event_dates(g, Unwrap(m.initTime), m.ie[1].event)
              IN  IF a = None THEN m ELSE save(m, a[1].event, a[1].state)
    ELSE m

\* ------------------------------------------------------- reconciliation
RECURSIVE commit_loop(_, _)
commit_loop(evs, ce) ==
    IF evs = << >> THEN << >>
    ELSE <<IF Head(evs).id = ce.id THEN ce ELSE Head(evs)>> \o commit_loop(Tail(evs), ce)

\* A commit that pushes the novel event without marking it changed.
commit_updated_event_unmarked(evs, ce) ==
    IF \E i \in DOMAIN evs : evs[i].id = ce.id
    THEN commit_loop(evs, ce)
    ELSE Append(evs, ce)

\* A commit that pushes the committed event whether or not an entry has its
\* identity.
commit_updated_event_always_push(evs, ce) == Append(evs, mark_changed(ce))

\* commit_updated_event: every entry with the committed identity is marked
\* changed and then overwritten by the committed event; with no such entry
\* the committed event is marked changed and pushed.
commit_updated_event(evs, ce) ==
    IF \E i \in DOMAIN evs : evs[i].id = ce.id
    THEN commit_loop(evs, ce)
    ELSE Append(evs, mark_changed(ce))

\* remove_deleted_events
remove_deleted_events(evs, id) == SelectSeq(evs, LAMBDA x : x.id # id)

\* A pass that applies the deletion only when there is no commit.
apply_interacting_events_starving(evs, com, del) ==
    IF IsSome(com) THEN commit_updated_event(evs, Unwrap(com))
    ELSE IF IsSome(del) THEN remove_deleted_events(evs, Unwrap(del))
    ELSE evs

\* ScheduleUi::apply_interacting_events on the list and the two slots.
apply_interacting_events(evs, com, del) ==
    LET afterCommit == IF IsSome(com) THEN commit_updated_event(evs, Unwrap(com)) ELSE evs
    IN  IF IsSome(del) THEN remove_deleted_events(afterCommit, Unwrap(del)) ELSE afterCommit

\* ------------------------------------------------------------ the store
\* The identities of the events the store is asked about.
StoreIds == {1, 2}

\* The times of stored events and of queries: one day of slots.
StoreTimes == 0 .. (DayLen - 1)

\* The events written to the store.
StoreEvents ==
    {MkEvent(i, a, b, 0, FALSE) : i \in StoreIds, a \in StoreTimes, b \in StoreTimes}

\* The names in the directory: an event's file, and a file that is no .ics file.
Name(stem, ext) == [stem |-> stem, ext |-> ext]

Names == {Name(i, "ics") : i \in StoreIds} \cup {Name(1, "txt")}

Absent == [kind |-> "absent", content |-> << >>]
Subdir == [kind |-> "dir", content |-> << >>]
File(content) == [kind |-> "file", content |-> content]

\* Bytes no parser makes an event of.
Garbage == <<"garbage">>

\* ICal::generate: the text of an event.
ICal_generate(e) == Some(<<"VEVENT", e.id, e.start, e.end, e.title>>)

\* ICal::parse: the event of a text, None for a text that is none.
ICal_parse(text) ==
    IF Len(text) = 5 /\ text[1] = "VEVENT"
    THEN Some(MkEvent(text[2], text[3], text[4], text[5], FALSE))
    ELSE None

\* std::fs::read
fs_read(d, ok, path) ==
    IF ok /\ d[path].kind = "file" THEN Some(d[path].content) ELSE None

\* Path::exists
path_exists(d, ok, path) == ok /\ d[path].kind # "absent"

\* LocalDir::event_path
event_path(id) == Name(id, "ics")

\* LocalDir::parse_event
parse_event(d, ok, path) ==
    IF fs_read(d, ok, path) = None THEN None
    ELSE ICal_parse(Unwrap(fs_read(d, ok, path)))

\* The orders in which read_dir may list the directory.
DirOrders ==
    {o \in [1 .. Cardinality(Names) -> Names] :
        \A i, j \in DOMAIN o : i # j => o[i] # o[j]}

\* LocalDir::all_event_file_entries on a listing: the regular files named *.ics.
all_event_file_entries(d, listing) ==
    SelectSeq(listing, LAMBDA n : d[n].kind = "file" /\ n.ext = "ics")

RECURSIVE filter_map_parse(_, _, _)
filter_map_parse(d, ok, entries) ==
    IF entries = << >> THEN << >>
    ELSE parse_event(d, ok, Head(entries))
           \o filter_map_parse(d, ok, Tail(entries))

\* LocalDir::all_events: the entries that parse, in the listing's order.
all_events(d, ok, listing) ==
    filter_map_parse(d, ok, all_event_file_entries(d, listing))

\* A range test that leaves out the events that only touch the interval.
event_visible_in_range_strict(e, start, end) ==
    Max2(e.start, start) < Min2(e.end, end)

\* event_visible_in_range
event_visible_in_range(e, start, end) ==
    Max2(e.start, start) <= Min2(e.end, end)

\* LocalDir::get_events on a listing of the directory.
get_events(d, ok, listing, from, to) ==
    Some(SelectSeq(all_events(d, ok, listing),
                   LAMBDA e : event_visible_in_range(e, from, to)))

\* LocalDir::get_event
get_event(d, ok, id) == parse_event(d, ok, event_path(id))

\* std::fs::write: a file is written unless the directory is unwritable or
\* the path is a directory.
fs_write_ok(d, ok, path) == ok /\ d[path].kind # "dir"

Ret(op, a, b, value) == [op |-> op, a |-> a, b |-> b, value |-> value]

StoreInit ==
    /\ dir = [n \in Names |-> Absent]
    /\ readable = TRUE
    /\ ret = Ret("none", 0, 0, None)

Alive == ret.op # "panic"

\* A create_event that leaves a file that is already there alone.
create_event_keep(d, ok, e) ==
    IF fs_write_ok(d, ok, event_path(e.id)) /\ d[event_path(e.id)].kind = "absent"
    THEN [dir |-> [d EXCEPT ![event_path(e.id)] = File(Unwrap(ICal_generate(e)))],
          value |-> Some("unit")]
    ELSE [dir |-> d, value |-> IF fs_write_ok(d, ok, event_path(e.id))
                               THEN Some("unit") ELSE None]

\* LocalDir::create_event: the directory it leaves and its result.
create_event(d, ok, e) ==
    IF fs_write_ok(d, ok, event_path(e.id))
    THEN [dir |-> [d EXCEPT ![event_path(e.id)] = File(Unwrap(ICal_generate(e)))],
          value |-> Some("unit")]
    ELSE [dir |-> d, value |-> None]

\* LocalDir::update_event: the directory it leaves and its result.
update_event(d, ok, e) ==
    IF fs_write_ok(d, ok, event_path(e.id))
    THEN [dir |-> [d EXCEPT ![event_path(e.id)] = File(Unwrap(ICal_generate(e)))],
          value |-> Some("unit")]
    ELSE [dir |-> d, value |-> None]

\* A delete_event that fails when there is nothing to remove.
delete_event_strict(d, ok, id) ==
    IF path_exists(d, ok, event_path(id)) /\ d[event_path(id)].kind = "file"
    THEN [dir |-> [d EXCEPT ![event_path(id)] = Absent], value |-> Some("unit")]
    ELSE [dir |-> d, value |-> None]

\* LocalDir::delete_event: the directory it leaves and its result;
\* remove_file fails on a directory.
delete_event(d, ok, id) ==
    IF ~path_exists(d, ok, event_path(id))
    THEN [dir |-> d, value |-> Some("unit")]
    ELSE IF d[event_path(id)].kind = "file"
    THEN [dir |-> [d EXCEPT ![event_path(id)] = Absent], value |-> Some("unit")]
    ELSE [dir |-> d, value |-> None]

\* Whether the path held an entry when a call began: 1 or 0, kept with the
\* call's result.
Held(path) == IF dir[path].kind # "absent" THEN 1 ELSE 0

\* LocalDir::create_event
CreateEvent ==
    \E e \in StoreEvents :
       /\ Alive
       /\ dir' = create_event(dir, readable, e).dir
       /\ ret' = Ret("create_event", e, Held(event_path(e.id)),
                     create_event(dir, readable, e).value)
       /\ UNCHANGED <<readable, uiVars>>

\* LocalDir::update_event
UpdateEvent ==
    \E e \in StoreEvents :
       /\ Alive
       /\ dir' = update_event(dir, readable, e).dir
       /\ ret' = Ret("update_event", e, Held(event_path(e.id)),
                     update_event(dir, readable, e).value)
       /\ UNCHANGED <<readable, uiVars>>

\* LocalDir::delete_event
DeleteEvent ==
    \E id \in StoreIds :
       /\ Alive
       /\ dir' = delete_event(dir, readable, id).dir
       /\ ret' = Ret("delete_event", id, Held(event_path(id)),
                     delete_event(dir, readable, id).value)
       /\ UNCHANGED <<readable, uiVars>>

\* LocalDir::get_events: read_dir's failure is an expect() that panics.
GetEvents ==
    \E from \in StoreTimes, to \in StoreTimes, listing \in DirOrders :
       /\ Alive
       /\ ret' = IF readable
                 THEN Ret("get_events", from, to, get_events(dir, readable, listing, from, to))
                 ELSE Ret("panic", from, to, None)
       /\ UNCHANGED <<dir, readable, uiVars>>

\* LocalDir::get_event
GetEvent ==
    \E id \in StoreIds :
       /\ Alive
       /\ ret' = Ret("get_event", id, 0, get_event(dir, readable, id))
       /\ UNCHANGED <<dir, readable, uiVars>>

\* Other programs write to the directory: a file that is no event, a file
\* under another extension, a subdirectory; or take the directory away and
\* bring it back.
Foreign ==
    /\ Alive
    /\ \/ \E i \in StoreIds, x \in {File(Garbage), Subdir} :
             /\ dir[Name(i, "ics")].kind = "absent"
             /\ dir' = [dir EXCEPT ![Name(i, "ics")] = x]
             /\ UNCHANGED readable
       \/ /\ dir' = [dir EXCEPT ![Name(1, "txt")] =
                        IF @ = Absent
                        THEN File(Unwrap(ICal_generate(MkEvent(1, 0, 0, 0, FALSE))))
                        ELSE Absent]
          /\ UNCHANGED readable
       \/ /\ readable' = ~readable
          /\ UNCHANGED dir
    /\ UNCHANGED <<ret, uiVars>>

\* ------------------------------------------------------------- the frame
\* The events the view opens with.
InitEvents ==
    <<MkEvent(1, 1, DayLen, 0, FALSE)>>

Init ==
    /\ events = InitEvents
    /\ ie = None
    /\ committed = None
    /\ deleted = None
    /\ dragOffset = None
    /\ newId = None
    /\ initTime = None
    /\ nextId = Len(InitEvents) + 1
    /\ started = 0
    /\ ptr = <<"up", 0>>
    /\ pc = "frame"
    /\ fault = "none"
    /\ hist = [status |-> "none", base |-> InitEvents, lost |-> None, dur |-> 0,
               origin |-> "none"]
    /\ lastPass = None
    /\ StoreInit

\* What the handlers of one frame leave in memory on gesture g: the blocks
\* are drawn, then the grid's response is handled.  With no interaction
\* active every event is drawn as a static block and only the block the
\* gesture is on responds; with one active the event under interaction is
\* drawn by put_interacting_event_block.
Handlers(g) ==
    IF ie = None
    THEN handle_new_event(IF g.blk \in Ids
                          THEN put_non_interacting_event_block(Mem, g, EventWithId(g.blk))
                          ELSE Mem,
                          g)
    ELSE LET m1 == put_interacting_event_block(Mem, g)
         IN  IF m1.fault = "unreachable" THEN m1 ELSE handle_new_event(m1, g)

\* The gestures that end an interaction in discard: the cancel key in the
\* editor, and a primary click on the empty grid.
Discarding(g) == g.kind = "escape" \/ GridResponse(g).clicked

Duration(e) == e.end - e.start

\* History: a record appears (begun), stays (active), or goes away by a
\* discarding gesture (discarded, and the working copy lost with it) or
\* otherwise (committed); a deletion ends what an ended interaction left to
\* observe.  dur is the duration the working copy had when its interaction
\* began, origin the gesture that began it: a drag on the empty grid (new),
\* a cloning drag (clone), or a click or drag on a block (existing).
HistAfter(m, g) ==
    IF IsSome(m.ie)
    THEN IF ie = None \/ ie[1].event.id # m.ie[1].event.id
         THEN [hist EXCEPT !.status = "begun", !.lost = None,
                           !.dur = Duration(m.ie[1].event),
                           !.origin = IF g.kind = "press_grid" THEN "new"
                                      ELSE IF g.kind = "press_block" /\ g.ctrl
                                      THEN "clone"
                                      ELSE "existing"]
         ELSE hist
    ELSE IF IsSome(ie)
    THEN IF Discarding(g)
         THEN [hist EXCEPT !.status = "discarded", !.lost = Some(ie[1].event)]
         ELSE [hist EXCEPT !.status = "committed"]
    ELSE IF g.kind = "delete" THEN [hist EXCEPT !.status = "none", !.lost = None]
    ELSE hist

\* The handlers of one frame left the memory m; reconciliation is next.
EndHandlers(m, g) ==
    /\ hist' = HistAfter(m, g)
    /\ ie' = m.ie
    /\ committed' = m.committed
    /\ deleted' = m.deleted
    /\ dragOffset' = m.dragOffset
    /\ newId' = m.newId
    /\ initTime' = m.initTime
    /\ nextId' = m.nextId
    /\ fault' = m.fault
    /\ ptr' = IF g.kind \in {"press_grid", "press_block"} THEN <<g.owner, g.blk>>
              ELSE IF g.kind = "release" THEN <<"up", 0>>
              ELSE ptr
    /\ started' = IF g.kind \in {"press_grid", "press_block"} THEN started + 1
                  ELSE started
    /\ pc' = IF m.fault = "unreachable" THEN "crashed" ELSE "apply"
    /\ UNCHANGED <<events, lastPass, storeVars>>

\* A frame with no interaction active whose Delete takes the event off the
\* list at once.
StaticFrame_deletes_at_once ==
    /\ pc = "frame"
    /\ ie = None
    /\ \E g \in Gestures :
          LET m == Handlers(g) IN
          /\ hist' = HistAfter(m, g)
          /\ ie' = m.ie
          /\ committed' = m.committed
          /\ deleted' = None
          /\ dragOffset' = m.dragOffset
          /\ newId' = m.newId
          /\ initTime' = m.initTime
          /\ nextId' = m.nextId
          /\ fault' = m.fault
          /\ ptr' = IF g.kind \in {"press_grid", "press_block"} THEN <<g.owner, g.blk>>
                    ELSE IF g.kind = "release" THEN <<"up", 0>>
                    ELSE ptr
          /\ started' = IF g.kind \in {"press_grid", "press_block"} THEN started + 1
                        ELSE started
          /\ pc' = "apply"
          /\ events' = IF IsSome(m.deleted)
                       THEN remove_deleted_events(events, Unwrap(m.deleted))
                       ELSE events
          /\ UNCHANGED <<lastPass, storeVars>>

\* A frame with no interaction active.
StaticFrame ==
    /\ pc = "frame"
    /\ ie = None
    /\ \E g \in Gestures : EndHandlers(Handlers(g), g)

\* A frame with an interaction active.
InteractingFrame ==
    /\ pc = "frame"
    /\ IsSome(ie)
    /\ \E g \in Gestures : EndHandlers(Handlers(g), g)

\* ScheduleUi::apply_interacting_events: both slots are taken, the commit is
\* applied before the deletion.  The frame ends.
ApplyInteractingEvents ==
    /\ pc = "apply"
    /\ events' = apply_interacting_events(events, committed, deleted)
    /\ committed' = None
    /\ deleted' = None
    /\ pc' = "frame"
    /\ hist' = IF hist.status = "begun"
               THEN [hist EXCEPT !.status = "active", !.base = events']
               ELSE IF hist.status = "active" THEN hist
               ELSE [hist EXCEPT !.dur = 0]
    /\ lastPass' = IF committed = None /\ deleted = None THEN None
                   ELSE Some([events |-> events, committed |-> committed,
                              deleted |-> deleted])
    /\ UNCHANGED <<ie, dragOffset, newId, initTime, nextId, started, ptr, fault,
                   storeVars>>

Next ==
    \/ StaticFrame
    \/ InteractingFrame
    \/ ApplyInteractingEvents

Spec == Init /\ [][Next]_vars

\* ------------------------------------------- reconciliation on its own
\* The identities a session can hand out.
ReconIds == 1 .. (Len(InitEvents) + MaxInteractions)

\* Working copies and list entries: two values of (start, end, title) for each
\* identity, with the dirty marker set or not.
ReconEvents ==
    {MkEvent(i, s, s + min_event_duration, s, c) :
        i \in ReconIds, s \in Titles, c \in BOOLEAN}

\* Lists of entries with pairwise distinct identities.
ReconLists ==
    UNION {{l \in [1 .. n -> ReconEvents] :
               \A i, j \in 1 .. n : i # j => l[i].id # l[j].id} :
           n \in 0 .. Cardinality(ReconIds)}

\* The handlers of a frame have left any committed event and any marker.
InitRecon ==
    /\ events \in ReconLists
    /\ committed \in {None} \cup {Some(e) : e \in ReconEvents}
    /\ deleted \in {None} \cup {Some(i) : i \in ReconIds}
    /\ ie = None
    /\ dragOffset = None
    /\ newId = None
    /\ initTime = None
    /\ nextId = Cardinality(ReconIds) + 1
    /\ started = 0
    /\ ptr = <<"up", 0>>
    /\ pc = "apply"
    /\ fault = "none"
    /\ hist = [status |-> "none", base |-> << >>, lost |-> None, dur |-> 0,
               origin |-> "none"]
    /\ lastPass = None
    /\ StoreInit

NextRecon == ApplyInteractingEvents

SpecRecon == InitRecon /\ [][NextRecon]_vars

\* ------------------------------------------------- the store on its own
InitStore ==
    /\ StoreInit
    /\ events = << >>
    /\ ie = None
    /\ committed = None
    /\ deleted = None
    /\ dragOffset = None
    /\ newId = None
    /\ initTime = None
    /\ nextId = 1
    /\ started = 0
    /\ ptr = <<"up", 0>>
    /\ pc = "store"
    /\ fault = "none"
    /\ hist = [status |-> "none", base |-> << >>, lost |-> None, dur |-> 0,
               origin |-> "none"]
    /\ lastPass = None

NextStore ==
    \/ CreateEvent
    \/ UpdateEvent
    \/ DeleteEvent
    \/ GetEvents
    \/ GetEvent
    \/ Foreign

SpecStore == InitStore /\ [][NextStore]_vars

\* ------------------------------------------------------------ the claims
IdsOf(evs) == {evs[i].id : i \in DOMAIN evs}

\* C1: reconciling a committed working copy whose identity matches an entry
\* replaces that entry by the working copy with its dirty marker set, and
\* leaves the length and every other entry as they were, also when the
\* working copy's marker was not set.
C1_ReplaceSetsMarker ==
    (pc = "frame" /\ IsSome(lastPass) /\ IsSome(lastPass[1].committed)
       /\ lastPass[1].deleted = None
       /\ lastPass[1].committed[1].id \in IdsOf(lastPass[1].events))
    => LET pre == lastPass[1].events
           c == lastPass[1].committed[1]
       IN  /\ Len(events) = Len(pre)
           /\ \A i \in DOMAIN pre :
                events[i] = IF pre[i].id = c.id THEN mark_changed(c) ELSE pre[i]

\* C2: reconciling a committed working copy whose identity matches no entry
\* appends it as the last entry with its dirty marker set; the length grows
\* by exactly one and the entries present before stay as they were.
C2_AppendNovel ==
    (pc = "frame" /\ IsSome(lastPass) /\ IsSome(lastPass[1].committed)
       /\ lastPass[1].deleted = None
       /\ lastPass[1].committed[1].id \notin IdsOf(lastPass[1].events))
    => LET pre == lastPass[1].events
           c == lastPass[1].committed[1]
       IN  /\ Len(events) = Len(pre) + 1
           /\ events[Len(events)] = mark_changed(c)
           /\ SubSeq(events, 1, Len(pre)) = pre

C2_Witness ==
    /\ pc = "frame" /\ IsSome(lastPass) /\ IsSome(lastPass[1].committed)
    /\ lastPass[1].deleted = None
    /\ lastPass[1].events # << >>
    /\ lastPass[1].committed[1].id \notin IdsOf(lastPass[1].events)
    /\ ~lastPass[1].committed[1].changed
    /\ Len(events) = Len(lastPass[1].events) + 1

SameButMarker(a, b) == [a EXCEPT !.changed = FALSE] = [b EXCEPT !.changed = FALSE]

\* C4: a reconciliation pass that finds both a committed event and a deletion
\* marker applies one commit and one deletion, the commit first: afterwards
\* both slots are empty, no entry has the deleted identity, the committed
\* event is in the list unless its identity is the deleted one, and every
\* other entry is as it was.
C4_CommitThenDelete ==
    (pc = "frame" /\ IsSome(lastPass) /\ IsSome(lastPass[1].committed)
       /\ IsSome(lastPass[1].deleted))
    => LET pre == lastPass[1].events
           c == lastPass[1].committed[1]
           d == lastPass[1].deleted[1]
           Other(x) == x.id # c.id /\ x.id # d
       IN  /\ committed = None
           /\ deleted = None
           /\ \A i \in DOMAIN events : events[i].id # d
           /\ c.id # d => \E i \in DOMAIN events : SameButMarker(events[i], c)
           /\ Cardinality({i \in DOMAIN events : events[i].id = c.id}) <= 1
           /\ SelectSeq(events, Other) = SelectSeq(pre, Other)

C4_Witness ==
    /\ pc = "frame" /\ IsSome(lastPass) /\ IsSome(lastPass[1].committed)
    /\ IsSome(lastPass[1].deleted)
    /\ lastPass[1].deleted[1] \in IdsOf(lastPass[1].events)
    /\ lastPass[1].committed[1].id # lastPass[1].deleted[1]
    /\ lastPass[1].committed[1].id \in IdsOf(events)
    /\ Len(events) = Len(lastPass[1].events)

\* C3: when an interaction ends in discard, the list is field for field what
\* it was when the interaction began, and stays so through the reconciliation
\* passes that follow: an edited event keeps its old fields, and a discarded
\* new event is in the list at no time.
C3_DiscardRestores ==
    /\ hist.status \in {"active", "discarded"} => events = hist.base
    /\ (hist.status = "discarded" /\ hist.origin # "existing")
         => hist.lost[1].id \notin IdsOf(events)
    /\ hist.status = "discarded" => committed = None

C3_Witness ==
    /\ pc = "frame"
    /\ hist.status = "discarded"
    /\ IsSome(lastPass) = FALSE
    /\ \E i \in DOMAIN events :
         /\ events[i].id = hist.lost[1].id
         /\ events[i].title # hist.lost[1].title

\* C5: start <= end in every event in the committed slot and in every entry
\* of the list, whatever creation, resize, drag, cloning and editing frames
\* came before.
C5_CommittedOrdered ==
    /\ \A i \in DOMAIN committed : committed[i].start <= committed[i].end
    /\ \A i \in DOMAIN events : events[i].start <= events[i].end

C5_Witness ==
    /\ pc = "apply"
    /\ IsSome(committed)
    /\ Duration(committed[1]) = min_event_duration
    /\ \E i \in DOMAIN events :
         /\ events[i].id = committed[1].id
         /\ events[i].start < committed[1].start
         /\ events[i].end = committed[1].end

C7_DragKeepsDuration ==
    (IsSome(ie) /\ ie[1].state = "Dragging")
    => /\ Duration(ie[1].event) = hist.dur
       /\ pc = "frame" =>
            \A g \in Gestures :
               LET ev == ie[1].event
                   m == Handlers(g)
                   after == IF IsSome(m.ie) THEN m.ie[1].event ELSE m.committed[1]
               IN  /\ IsSome(m.ie) \/ IsSome(m.committed)
                   /\ [after EXCEPT !.start = 0, !.end = 0]
                        = [ev EXCEPT !.start = 0, !.end = 0]
                   /\ after.start - ev.start = after.end - ev.end
                   /\ Duration(after) = hist.dur
                   /\ pointer_to_datetime_offset(g, dragOffset) = None => after = ev

C7_Witness ==
    /\ pc = "frame"
    /\ IsSome(ie) /\ ie[1].state = "Dragging"
    /\ hist.origin = "existing"
    /\ hist.dur > 0
    /\ \E i \in DOMAIN events :
         events[i].id = ie[1].event.id /\ events[i].start # ie[1].event.start
    /\ \E g \in Gestures :
         g.kind = "hold" /\ pointer_to_datetime_offset(g, dragOffset) = None

\* The anchor lies in the first half of its day.
FirstHalf(a) == 2 * (a - DayLen * DayOf(a)) < DayLen

\* A new event is being drawn: the record is the event handle_new_event made.
Creating ==
    /\ IsSome(ie) /\ IsSome(newId) /\ IsSome(initTime)
    /\ ie[1].event.id = newId[1]
    /\ ptr[1] = "grid"

\* C8: a frame of a drag on the empty grid whose pointer maps to a time t,
\* with anchor a (t itself on the frame the drag starts): when a and t are on
\* different days the new event is [a, a + min_event_duration] for a in the
\* first half of its day and [a - min_event_duration, a] otherwise, however
\* far and whichever way the pointer went; on the same day it is
\* [min(a, t), max(a, t)].
C8_NewEventDates ==
    pc = "frame" =>
      \A g \in Gestures :
         (GridResponse(g).dragged /\ IsSome(g.time)
            /\ (g.kind = "press_grid" \/ Creating))
         => LET t == Unwrap(g.time)
                a == IF g.kind = "press_grid" THEN t ELSE Unwrap(initTime)
                m == Handlers(g)
            IN  /\ IsSome(m.ie)
                /\ m.initTime = Some(a)
                /\ m.ie[1].event.id = Unwrap(m.newId)
                /\ IF DayOf(a) # DayOf(t)
                   THEN IF FirstHalf(a)
                        THEN /\ m.ie[1].event.start = a
                             /\ m.ie[1].event.end = a + min_event_duration
                        ELSE /\ m.ie[1].event.start = a - min_event_duration
                             /\ m.ie[1].event.end = a
                   ELSE /\ m.ie[1].event.start = Min2(a, t)
                        /\ m.ie[1].event.end = Max2(a, t)

C8_Witness ==
    /\ pc = "frame"
    /\ Creating
    /\ ~FirstHalf(Unwrap(initTime))
    /\ ie[1].state = "DraggingEventEnd"
    /\ ie[1].event.start = Unwrap(initTime) - min_event_duration
    /\ ie[1].event.end = Unwrap(initTime)

\* C9: a body drag with the modifier held on an event of the list makes a
\* record in state Dragging whose working copy has an identity no entry has,
\* the event's title and duration, and the drag-mapped time as its start
\* (on that frame the event's own start, when the time axis shows it); the
\* copy follows the drag-mapped time of the later frames; the list stays as it
\* was until the commit, which makes it one entry longer.
C9_Cloning ==
    /\ pc = "frame" =>
         \A g \in Gestures :
            (g.kind = "press_block" /\ g.region = "body" /\ g.ctrl /\ ie = None)
            => LET o == EventWithId(g.blk)
                   m == Handlers(g)
               IN  /\ IsSome(m.ie)
                   /\ m.ie[1].state = "Dragging"
                   /\ m.ie[1].event.id \notin Ids
                   /\ m.ie[1].event.title = o.title
                   /\ Duration(m.ie[1].event) = Duration(o)
                   /\ m.ie[1].event.start = o.start
                   /\ IsSome(pointer_to_datetime_offset(g, m.dragOffset))
                        => Some(m.ie[1].event.start)
                             = pointer_to_datetime_offset(g, m.dragOffset)
                   /\ apply_interacting_events(events, m.committed, m.deleted) = events
    /\ (pc = "frame" /\ hist.origin = "clone" /\ IsSome(ie) /\ ie[1].state = "Dragging") =>
         \A g \in Gestures :
            IsSome(pointer_to_datetime_offset(g, dragOffset))
            => \A i \in DOMAIN Handlers(g).ie :
                  Some(Handlers(g).ie[i].event.start)
                    = pointer_to_datetime_offset(g, dragOffset)
    /\ (hist.origin = "clone" /\ hist.status = "active") => events = hist.base
    /\ (pc = "frame" /\ hist.origin = "clone" /\ hist.status = "committed"
          /\ IsSome(lastPass))
         => /\ Len(events) = Len(lastPass[1].events) + 1
            /\ SubSeq(events, 1, Len(lastPass[1].events)) = lastPass[1].events
            /\ lastPass[1].events = hist.base

C9_Witness ==
    /\ pc = "frame" /\ hist.origin = "clone" /\ hist.status = "committed"
    /\ IsSome(lastPass)
    /\ Len(events) = Len(lastPass[1].events) + 1
    /\ \E i \in 1 .. (Len(events) - 1) :
         /\ events[i].title = events[Len(events)].title
         /\ Duration(events[i]) = Duration(events[Len(events)])
         /\ events[i].start # events[Len(events)].start
         /\ events[i].id # events[Len(events)].id

\* The events the store holds: those of the regular .ics files that parse.
Persisted ==
    {ICal_parse(dir[n].content)[1] :
        n \in {x \in Names : x.ext = "ics" /\ dir[x].kind = "file"
                              /\ IsSome(ICal_parse(dir[x].content))}}

\* C10: get_events(from, to) on a readable directory succeeds, also with an
\* empty result, and returns each persisted event E with
\* max(E.start, from) <= min(E.end, to) once and no other event; an event
\* with E.end = from or E.start = to is returned.
C10_Overlap ==
    ret.op = "get_events"
    => /\ IsSome(ret.value)
       /\ LET got == ret.value[1]
              from == ret.a
              to == ret.b
          IN  /\ {got[i] : i \in DOMAIN got}
                   = {E \in Persisted :
                        (IF E.start >= from THEN E.start ELSE from)
                          <= (IF E.end <= to THEN E.end ELSE to)}
              /\ \A i, j \in DOMAIN got : got[i] = got[j] => i = j
              /\ \A E \in Persisted :
                   (E.start <= E.end /\ from <= to /\ (E.end = from \/ E.start = to))
                   => \E i \in DOMAIN got : got[i] = E

C10_Witness ==
    /\ ret.op = "get_events"
    /\ Len(ret.value[1]) = 1
    /\ ret.value[1][1].end = ret.a
    /\ ret.value[1][1].start < ret.a
    /\ Cardinality(Persisted) = 2
    /\ dir[Name(1, "txt")].kind = "file"

HasRecord(d, ok, id) == IsSome(parse_event(d, ok, event_path(id)))

FocusedEventState ==
    {"Editing", "Dragging", "DraggingEventStart", "DraggingEventEnd", "EventCloning"}

\* The record the handlers leave is the record the frame began with.
SameRecord(m) == IsSome(ie) /\ IsSome(m.ie) /\ m.ie[1].event.id = ie[1].event.id

\* C13: a record in state Editing stays in state Editing in every later frame
\* in which it lives: state_override gives Editing for Editing whatever the
\* classifier found, and no frame's handlers, handle_new_event's branches for
\* a drag and a released drag among them, leave it in a drag state.
C13_EditingStays ==
    /\ \A new \in FocusedEventState : state_override("Editing", new) = "Editing"
    /\ \A old \in FocusedEventState : state_override(old, "Editing") = "Editing"
    /\ (pc = "frame" /\ IsEditing) =>
         \A g \in Gestures :
            SameRecord(Handlers(g)) => Handlers(g).ie[1].state = "Editing"

C13_Witness ==
    /\ pc = "frame"
    /\ IsEditing
    /\ hist.origin = "new"
    /\ hist.status = "active"
    /\ ie[1].event.title = 1
    /\ ie[1].event.start < ie[1].event.end

\* C14: a frame ends an Editing interaction in discard exactly when the
\* cancel key is pressed in it; a frame in which the editor loses focus, a
\* click lands elsewhere or a drag starts elsewhere ends it in commit: the
\* working copy with the edited title is in the committed slot, and in the
\* list after that frame's reconciliation.
C14_EditingEnds ==
    (pc = "frame" /\ IsEditing) =>
      \A g \in Gestures :
         LET m == Handlers(g)
             ed == place_event_editor(g, ie[1].event).event
             after == apply_interacting_events(events, m.committed, m.deleted)
         IN  /\ g.kind = "escape" => (m.ie = None /\ m.committed = None /\ after = events)
             /\ (~SameRecord(m) /\ g.kind # "escape")
                  => /\ m.committed = Some(ed)
                     /\ \E i \in DOMAIN after :
                           after[i].id = ed.id /\ after[i].title = ed.title
             /\ (g.kind \in {"blur", "elsewhere", "press_grid", "press_block"})
                  => ~SameRecord(m) /\ m.committed = Some(ed)
             /\ (g.kind \in {"idle", "type"}) => m.ie = Some(MkIE(ed, "Editing"))

C14_Witness ==
    /\ pc = "frame"
    /\ hist.status = "committed"
    /\ hist.origin = "existing"
    /\ IsSome(lastPass) /\ IsSome(lastPass[1].committed)
    /\ \E i \in DOMAIN events :
         /\ events[i].id = lastPass[1].committed[1].id
         /\ events[i].title = 1
         /\ lastPass[1].events[i].title = 0
         /\ events[i].start = lastPass[1].events[i].start
         /\ events[i].end = lastPass[1].events[i].end

DragStates == {"Dragging", "DraggingEventStart", "DraggingEventEnd"}

\* C15: for a record in a drag state, a frame with nothing dragged commits it:
\* the working event as it was goes to the committed slot, the record is
\* removed, and the event is in the list after that frame's reconciliation;
\* a frame in which the button is pressed or held leaves the record in
\* place and the committed slot empty.
C15_DragEndCommits ==
    (pc = "frame" /\ IsSome(ie) /\ ie[1].state \in DragStates) =>
      \A g \in Gestures :
         LET m == Handlers(g)
             after == apply_interacting_events(events, m.committed, m.deleted)
         IN  /\ ~is_anything_being_dragged(g)
                  => /\ m.ie = None
                     /\ m.committed = Some(ie[1].event)
                     /\ \E i \in DOMAIN after : SameButMarker(after[i], ie[1].event)
             /\ g.kind \in {"press_grid", "press_block", "hold"}
                  => SameRecord(m) /\ m.committed = None /\ after = events

C15_Witness ==
    /\ pc = "frame"
    /\ hist.status = "committed"
    /\ hist.origin = "existing"
    /\ IsSome(lastPass) /\ IsSome(lastPass[1].committed)
    /\ \E i \in DOMAIN events :
         /\ events[i] = lastPass[1].committed[1]
         /\ events[i].title = lastPass[1].events[i].title
         /\ events[i].end > lastPass[1].events[i].end
         /\ events[i].start = lastPass[1].events[i].start

\* C16: the list is written by the reconciliation step alone: a step of the
\* handlers of a frame (classification, the start of an interaction, the
\* update of the working copy, commit into the slot, discard, the deletion
\* marker) leaves it as it was.
C16_OnlyReconciliationWrites ==
    [][pc = "frame" => events' = events]_vars

C16_Witness ==
    /\ pc = "apply"
    /\ IsSome(committed)
    /\ committed[1].title = 1
    /\ committed[1].id \notin IdsOf(events)
    /\ IsSome(ie)
    /\ ie[1].event.id \notin IdsOf(events)
    /\ events = InitEvents

\* C17: a failure to list the directory makes get_events return none and
\* the program goes on: no call of the store ends the process.
C17_EnumerationFailureReported ==
    ret.op # "panic"

\* C18: the entries of the list have pairwise distinct identities after any
\* commits and deletions, with new and cloned events under fresh identities;
\* a pass leaves every entry that stays under the identity it had, in the
\* order it had, and adds at most the committed identity.
C18_DistinctIds ==
    /\ \A i, j \in DOMAIN events : i # j => events[i].id # events[j].id
    /\ (IsSome(ie) /\ hist.origin \in {"new", "clone"} /\ hist.status \in {"begun", "active"})
         => ie[1].event.id \notin IdsOf(events)
    /\ (pc = "frame" /\ IsSome(lastPass))
         => LET pre == lastPass[1].events
                del == lastPass[1].deleted
                com == lastPass[1].committed
                Kept(x) == x.id \in IdsOf(pre)
                Stays(x) == del # Some(x.id)
                IdSeq(q) == [i \in DOMAIN q |-> q[i].id]
            IN  /\ del = None => \A i \in DOMAIN pre : events[i].id = pre[i].id
                /\ IdSeq(SelectSeq(events, Kept)) = IdSeq(SelectSeq(pre, Stays))
                /\ IdsOf(events) \subseteq IdsOf(pre) \cup {com[i].id : i \in DOMAIN com}

C18_Witness ==
    /\ pc = "frame"
    /\ IsSome(lastPass) /\ IsSome(lastPass[1].committed)
    /\ Len(lastPass[1].events) = 2
    /\ Len(events) = 2
    /\ lastPass[1].committed[1].id = lastPass[1].events[1].id
    /\ events[1] # lastPass[1].events[1]
    /\ events[2] = lastPass[1].events[2]

\* C19: whenever InteractingEvent::discard runs there is a record: the
\* assertion at its head never fails.
C19_DiscardHasRecord ==
    fault # "debug_assert"

\* C20: the stored record never has state EventCloning, interact_event is
\* called with a drag state only, and its unreachable arm is never executed.
C20_NoUnreachable ==
    /\ fault # "unreachable"
    /\ pc # "crashed"
    /\ \A i \in DOMAIN ie : ie[i].state \in FocusedEventState \ {"EventCloning"}
    /\ (pc = "frame" /\ IsSome(ie) /\ ~IsEditing) =>
         \A g \in Gestures :
            /\ ~interact_event(g, ie[1].state, ie[1].event, dragOffset).panic
            /\ \A i \in DOMAIN Handlers(g).ie :
                  Handlers(g).ie[i].state \in FocusedEventState \ {"EventCloning"}
    /\ \A old \in FocusedEventState \ {"EventCloning"}, new \in FocusedEventState :
          state_override(old, new) # "EventCloning"

C20_Witness ==
    /\ pc = "frame"
    /\ IsSome(ie)
    /\ ie[1].state = "Dragging"
    /\ hist.origin = "clone"
    /\ hist.status = "active"
    /\ ie[1].event.id \notin IdsOf(events)
    /\ \E i \in DOMAIN events :
         /\ events[i].title = ie[1].event.title
         /\ Duration(events[i]) = Duration(ie[1].event)
         /\ events[i].start > ie[1].event.start

====
